---- MODULE Spec2Model ----
(***************************************************************************)
(* Exposure Estimation & Reasoning Tool (src/app.py).                      *)
(*                                                                         *)
(* The program is a Streamlit script: every interaction with a sidebar     *)
(* widget re-runs the whole script top to bottom with the widgets' current *)
(* values.  The state is the widgets' values together with everything the  *)
(* last run of the script computed and displayed.  Each action is one      *)
(* widget interaction followed by the complete re-run.                     *)
(*                                                                         *)
(* Python's float is IEEE 754 binary64.  The arithmetic of the script is   *)
(* modelled bit for bit: a float is a 53-bit significand and an exponent,  *)
(* every operation computes the exact result and rounds it to nearest,     *)
(* ties to even.  Significands do not fit TLC's integers, so they are      *)
(* little-endian sequences of 15-bit limbs.                                *)
(***************************************************************************)
EXTENDS Integers, Sequences, FiniteSets, TLC

(***************************************************************************)
(* Natural numbers of any size: little-endian limb sequences, no leading   *)
(* zero limb, zero is << >>.                                               *)
(***************************************************************************)
LimbBits == 15

Base == 2 ^ LimbBits

Max(a, b) == IF a >= b THEN a ELSE b

Min(a, b) == IF a <= b THEN a ELSE b

Limb(a, i) == IF i \in 1..Len(a) THEN a[i] ELSE 0

RECURSIVE BTrim(_)
BTrim(a) ==
    IF a = << >> THEN a
    ELSE IF a[Len(a)] = 0 THEN BTrim(SubSeq(a, 1, Len(a) - 1))
    ELSE a

RECURSIVE FromNat(_)
FromNat(n) == IF n = 0 THEN << >> ELSE <<n % Base>> \o FromNat(n \div Base)

RECURSIVE BAddFrom(_, _, _, _)
BAddFrom(a, b, i, c) ==
    IF i > Len(a) /\ i > Len(b)
    THEN (IF c = 0 THEN << >> ELSE <<c>>)
    ELSE LET s == Limb(a, i) + Limb(b, i) + c
         IN  <<s % Base>> \o BAddFrom(a, b, i + 1, s \div Base)

BAdd(a, b) == BAddFrom(a, b, 1, 0)

RECURSIVE BMulSmallFrom(_, _, _, _)
BMulSmallFrom(a, k, i, c) ==
    IF i > Len(a)
    THEN (IF c = 0 THEN << >> ELSE <<c>>)
    ELSE LET s == a[i] * k + c
         IN  <<s % Base>> \o BMulSmallFrom(a, k, i + 1, s \div Base)

\* a * k for a limb-sized k
BMulSmall(a, k) == IF k = 0 THEN << >> ELSE BMulSmallFrom(a, k, 1, 0)

Zeros(n) == [i \in 1..n |-> 0]

RECURSIVE BMulFrom(_, _, _)
BMulFrom(a, b, i) ==
    IF i > Len(b) THEN << >>
    ELSE BAdd(IF b[i] = 0 THEN << >> ELSE Zeros(i - 1) \o BMulSmall(a, b[i]),
              BMulFrom(a, b, i + 1))

BMul(a, b) == IF a = << >> \/ b = << >> THEN << >> ELSE BMulFrom(a, b, 1)

\* a * 2^k
BShl(a, k) ==
    IF a = << >> THEN << >>
    ELSE Zeros(k \div LimbBits) \o BMulSmall(a, 2 ^ (k % LimbBits))

\* floor(a / 2^k)
BShr(a, k) ==
    LET q == k \div LimbBits
        r == k % LimbBits
        n == Len(a) - q
    IN  IF n <= 0 THEN << >>
        ELSE BTrim([i \in 1..n |->
                 (a[i + q] \div (2 ^ r))
                 + (Limb(a, i + q + 1) % (2 ^ r)) * (2 ^ (LimbBits - r))])

RECURSIVE NatBitLen(_)
NatBitLen(n) == IF n = 0 THEN 0 ELSE 1 + NatBitLen(n \div 2)

BitLen(a) ==
    IF a = << >> THEN 0 ELSE LimbBits * (Len(a) - 1) + NatBitLen(a[Len(a)])

\* bit j (from 0) of a
BBit(a, j) == (Limb(a, j \div LimbBits + 1) \div (2 ^ (j % LimbBits))) % 2

\* a mod 2^k = 0
BLowZero(a, k) ==
    /\ \A i \in 1..Min(k \div LimbBits, Len(a)) : a[i] = 0
    /\ Limb(a, k \div LimbBits + 1) % (2 ^ (k % LimbBits)) = 0

RECURSIVE NatTrailingZeros(_)
NatTrailingZeros(n) == IF n % 2 = 1 THEN 0 ELSE 1 + NatTrailingZeros(n \div 2)

RECURSIVE BTrailingZeros(_)
BTrailingZeros(a) ==
    IF a[1] = 0 THEN LimbBits + BTrailingZeros(Tail(a))
    ELSE NatTrailingZeros(a[1])

RECURSIVE BLtFrom(_, _, _)
BLtFrom(a, b, i) ==
    IF i = 0 THEN FALSE
    ELSE IF a[i] # b[i] THEN a[i] < b[i]
    ELSE BLtFrom(a, b, i - 1)

BLt(a, b) ==
    IF Len(a) # Len(b) THEN Len(a) < Len(b) ELSE BLtFrom(a, b, Len(a))

\* a divided by a limb-sized d: quotient limbs (most significant first
\* while computing) and remainder
RECURSIVE BDivSmallFrom(_, _, _, _)
BDivSmallFrom(a, d, i, rem) ==
    IF i = 0 THEN [q |-> << >>, r |-> rem]
    ELSE LET cur  == rem * Base + a[i]
             rest == BDivSmallFrom(a, d, i - 1, cur % d)
         IN  [q |-> rest.q \o <<cur \div d>>, r |-> rest.r]

BDivSmall(a, d) ==
    LET res == BDivSmallFrom(a, d, Len(a), 0)
    IN  [q |-> BTrim(res.q), r |-> res.r]

(***************************************************************************)
(* Python float: IEEE 754 binary64, non-negative values only (no input of  *)
(* the script is negative and it never subtracts floats).  A float is      *)
(* [m, e] with value m * 2^e.  The representation is canonical: a normal   *)
(* number has a significand of exactly Precision bits, a subnormal one has *)
(* e = EMin and fewer bits, zero is [<< >>, EMin]; so two floats are equal *)
(* as Python values exactly when they are equal as records.  Overflow to   *)
(* inf is not modelled: the values typed into the model stay far below it. *)
(***************************************************************************)
Precision == 53

EMin == -1074

\* working bits of a quotient before it is rounded
GuardBits == 75

FZero == [m |-> << >>, e |-> EMin]

\* n * 2^e rounded to the nearest float, ties to even
Round(n, e) ==
    IF n = << >> THEN FZero
    ELSE LET e1 == Max(e + BitLen(n) - Precision, EMin)
             sh == e1 - e
         IN  IF sh <= 0 THEN [m |-> BShl(n, -sh), e |-> e1]
             ELSE LET q      == BShr(n, sh)
                      half   == BBit(n, sh - 1) = 1
                      sticky == ~BLowZero(n, sh - 1)
                      up     == half /\ (sticky \/ BBit(q, 0) = 1)
                      m1     == IF up THEN BAdd(q, <<1>>) ELSE q
                  IN  IF m1 = << >> THEN FZero
                      ELSE IF BitLen(m1) > Precision
                      THEN [m |-> BShr(m1, 1), e |-> e1 + 1]
                      ELSE [m |-> m1, e |-> e1]

\* float(n) for an int n >= 0
FromInt(n) == Round(FromNat(n), 0)

\* the exact quotient a / d (d limb-sized) times 2^e, rounded: the quotient
\* is computed to GuardBits extra bits and the remainder kept as a sticky bit
RoundQuotient(a, d, e) ==
    LET dv == BDivSmall(BShl(a, GuardBits), d)
        n  == BAdd(BShl(dv.q, 1), IF dv.r = 0 THEN << >> ELSE <<1>>)
    IN  Round(n, e - GuardBits - 1)

\* the float a decimal literal p/d denotes (0.6 is FromRatio(6, 10))
FromRatio(p, d) == RoundQuotient(FromNat(p), d, 0)

\* x * y
FMul(x, y) == Round(BMul(x.m, y.m), x.e + y.e)

\* x + y
FAdd(x, y) ==
    IF x.m = << >> THEN y
    ELSE IF y.m = << >> THEN x
    ELSE LET e == Min(x.e, y.e)
         IN  Round(BAdd(BShl(x.m, x.e - e), BShl(y.m, y.e - e)), e)

\* x / y, for a divisor whose odd part fits a limb: every divisor of the
\* script is one of the constants 24.0, 100.0, 53.0, 35.0 and 9.0
FDiv(x, y) ==
    LET tz == BTrailingZeros(y.m)
        d  == BShr(y.m, tz)
    IN  IF x.m = << >> THEN FZero
        ELSE RoundQuotient(x.m, d[1], x.e - (y.e + tz))

\* x < y, x <= y, x >= y
FLt(x, y) == x.e < y.e \/ (x.e = y.e /\ BLt(x.m, y.m))

FLe(x, y) == x = y \/ FLt(x, y)

FGe(x, y) == FLe(y, x)

(***************************************************************************)
(* Strings.  The option labels are the script's, with the characters       *)
(* outside ASCII transliterated (subscript 2, micro sign, superscript 3,   *)
(* en dash).                                                               *)
(***************************************************************************)
\* s.startswith(w)
StartsWith(s, w) == Len(s) >= Len(w) /\ SubSeq(s, 1, Len(w)) = w

\* w in s
Contains(w, s) ==
    \E i \in 1..(Len(s) - Len(w) + 1) : SubSeq(s, i, i + Len(w) - 1) = w

\* a name the run of the script never bound
Undefined == [undefined |-> TRUE]

(***************************************************************************)
(* Sidebar widgets: their options, ranges and initial values.              *)
(***************************************************************************)
ProfileOptions ==
    << "High impact example: U.S. Steel Clairton Coke Works (PA) - coke/steel supply chain",
       "Medium impact example: Cleveland-Cliffs Burns Harbor (IN) - large steel mill",
       "Lower impact example: Nucor (EAF-based mini-mill archetype) - scrap/EAF steelmaking" >>

PollutantOptions == << "NO2 (ppb)", "PM2.5 (ug/m3)" >>

ActivityOptions == << "Resting", "Light activity", "Moderate activity" >>

\* the hours slider: 0..24, initially 2
HoursMin == 0

HoursMax == 24

HoursInitial == 2

\* the infiltration slider: 0.0 to 1.0 in steps of 0.05, initially 0.6.
\* Position k of the slider is the float of the decimal k * 0.05.
InfiltrationSteps == 20

SliderValue(k) == FromRatio(5 * k, 100)

InfiltrationInitial == FromRatio(6, 10)

(***************************************************************************)
(* The script, statement by statement.                                     *)
(***************************************************************************)
defaults ==
    ("NO2 (ppb)" :>
        [High |-> FromInt(60), Medium |-> FromInt(35), Lower |-> FromInt(20)])
    @@ ("PM2.5 (ug/m3)" :>
        [High |-> FromInt(20), Medium |-> FromInt(12), Lower |-> FromInt(8)])

Tier(p) ==
    IF StartsWith(p, "High") THEN "High"
    ELSE IF StartsWith(p, "Medium") THEN "Medium"
    ELSE "Lower"

DefaultOutdoor(pol, t) == defaults[pol][t]

Unit(pol) == IF Contains("NO2", pol) THEN "ppb" ELSE "ug/m3"

\* Faulty variant of COutdoor (sensitivity of C9): the number typed in is
\* ignored.
COutdoorDefaultOnly(ud, dflt, ty) == dflt

\* the default, or the number typed into the number_input
COutdoor(ud, dflt, ty) == IF ud THEN dflt ELSE ty

HoursIn(h) == 24 - h

\* {"Resting": 0.5, "Light activity": 1.0, "Moderate activity": 1.6}
VentRates ==
    ("Resting" :> FromRatio(5, 10))
    @@ ("Light activity" :> FromInt(1))
    @@ ("Moderate activity" :> FromRatio(16, 10))

VentM3PerHr(act) == VentRates[act]

\* the literals 24, 24.0, 100.0, 100 and 50 as floats
F24 == FromInt(24)

F100 == FromInt(100)

F50 == FromInt(50)

VentM3PerDay(perHr) == FMul(perHr, F24)

CIndoor(cOut, inf) == FMul(cOut, inf)

CTwa24h(cOut, hOut, cIn, hIn) ==
    FDiv(FAdd(FMul(cOut, FromInt(hOut)), FMul(cIn, FromInt(hIn))), F24)

\* Faulty variant of Dose (sensitivity of C7): the NO2 dose is multiplied by
\* the day's ventilation as well.
DoseVentilated(pol, twa, perDay) ==
    IF Contains("PM2.5", pol)
    THEN [dose_ug_per_day |-> FMul(twa, perDay), dose_ppb_hours |-> Undefined]
    ELSE [dose_ug_per_day |-> Undefined, dose_ppb_hours |-> FMul(twa, perDay)]

\* if "PM2.5" in pollutant: dose_ug_per_day = ... else: dose_ppb_hours = ...
\* (the name of the other branch stays unbound)
Dose(pol, twa, perDay) ==
    IF Contains("PM2.5", pol)
    THEN [dose_ug_per_day |-> FMul(twa, perDay), dose_ppb_hours |-> Undefined]
    ELSE [dose_ug_per_day |-> Undefined, dose_ppb_hours |-> FMul(twa, F24)]

NO2_1hr_ppb == FromInt(100)

NO2_ann_ppb == FromInt(53)

PM25_24hr_ug == FromInt(35)

\* Faulty variant of PM25_ann_ug (sensitivity of C10): the annual PM2.5
\* standard as it was before its revision to 9.
PM25_ann_old == FromInt(12)

PM25_ann_ug == FromInt(9)

\* the dose section of the page: the quantity written and its unit
DoseDisplay(pol, ug, ppbh) ==
    IF Contains("PM2.5", pol)
    THEN [value |-> ug, unit |-> "ug/day"]
    ELSE [value |-> ppbh, unit |-> "ppb.hours/day"]

\* Faulty variant of Percentages (sensitivity of C3): NO2's short-term
\* percentage is taken from the time-weighted average.
PercentagesFromTwa(pol, cOut, twa) ==
    IF Contains("NO2", pol)
    THEN [pct_1hr |-> FDiv(FMul(F100, twa), NO2_1hr_ppb),
          pct_24  |-> Undefined,
          pct_ann |-> FDiv(FMul(F100, twa), NO2_ann_ppb)]
    ELSE [pct_1hr |-> Undefined,
          pct_24  |-> FDiv(FMul(F100, twa), PM25_24hr_ug),
          pct_ann |-> FDiv(FMul(F100, twa), PM25_ann_ug)]

\* pct_1hr and pct_ann in the NO2 branch, pct_24 and pct_ann in the other
Percentages(pol, cOut, twa) ==
    IF Contains("NO2", pol)
    THEN [pct_1hr |-> FDiv(FMul(F100, cOut), NO2_1hr_ppb),
          pct_24  |-> Undefined,
          pct_ann |-> FDiv(FMul(F100, twa), NO2_ann_ppb)]
    ELSE [pct_1hr |-> Undefined,
          pct_24  |-> FDiv(FMul(F100, twa), PM25_24hr_ug),
          pct_ann |-> FDiv(FMul(F100, twa), PM25_ann_ug)]

\* the six lists recs is bound to
NO2HighRecs ==
    << "Reduce outdoor exertion/time near the facility during peak hours.",
       "Keep windows closed; use HVAC on recirculation if available.",
       "Run a HEPA air purifier indoors (or upgrade HVAC filter if compatible).",
       "Check local AQI/alerts and shift outdoor activities to cleaner times." >>

NO2ModerateRecs ==
    << "Limit prolonged outdoor activity if you notice symptoms or air smells/looks hazy.",
       "Keep indoor air cleaner: close windows during poor air periods; consider filtration.",
       "If possible, choose walking routes/activities farther from busy roads and facility perimeter." >>

NO2LowRecs ==
    << "Maintain good indoor ventilation/filtration habits and monitor conditions during stagnant/low-wind days.",
       "Use this tool to test: time outdoors vs infiltration vs activity level." >>

PM25HighRecs ==
    << "Reduce outdoor exertion/time when air is smoky/hazy or during alerts.",
       "Keep windows closed during poor air periods; run a HEPA purifier indoors.",
       "If you must be outdoors, take breaks indoors and avoid heavy exertion." >>

PM25ModerateRecs ==
    << "Use a HEPA purifier or improve HVAC filtration if possible.",
       "Shift outdoor exercise to times with cleaner air (after wind picks up / after a front)." >>

PM25LowRecs ==
    << "Monitor conditions on stagnant days; indoor filtration remains a strong lever.",
       "Use this tool to compare: time outdoors vs infiltration vs activity level." >>

\* Faulty variant of NO2Steps (sensitivity of C1): exclusive thresholds.
NO2StepsExclusive(p1, pAnn) ==
    IF FLt(F100, p1) \/ FLt(F100, pAnn)
    THEN [call |-> "warning", recs |-> NO2HighRecs]
    ELSE IF FLt(F50, p1) \/ FLt(F50, pAnn)
    THEN [call |-> "info", recs |-> NO2ModerateRecs]
    ELSE [call |-> "success", recs |-> NO2LowRecs]

\* the if / elif / else of the NO2 branch: the st call made (st.warning,
\* st.info or st.success) and the list recs is bound to
NO2Steps(p1, pAnn) ==
    IF FGe(p1, F100) \/ FGe(pAnn, F100)
    THEN [call |-> "warning", recs |-> NO2HighRecs]
    ELSE IF FGe(p1, F50) \/ FGe(pAnn, F50)
    THEN [call |-> "info", recs |-> NO2ModerateRecs]
    ELSE [call |-> "success", recs |-> NO2LowRecs]

\* Faulty variant of PM25Steps (sensitivity of C8): the lists of the last
\* two branches are swapped.
PM25StepsSwapped(p24, pAnn) ==
    IF FGe(p24, F100) \/ FGe(pAnn, F100)
    THEN [call |-> "warning", recs |-> PM25HighRecs]
    ELSE IF FGe(p24, F50) \/ FGe(pAnn, F50)
    THEN [call |-> "info", recs |-> PM25LowRecs]
    ELSE [call |-> "success", recs |-> PM25ModerateRecs]

\* the if / elif / else of the PM2.5 branch
PM25Steps(p24, pAnn) ==
    IF FGe(p24, F100) \/ FGe(pAnn, F100)
    THEN [call |-> "warning", recs |-> PM25HighRecs]
    ELSE IF FGe(p24, F50) \/ FGe(pAnn, F50)
    THEN [call |-> "info", recs |-> PM25ModerateRecs]
    ELSE [call |-> "success", recs |-> PM25LowRecs]

\* for r in recs: st.write(f"- {r}")
Written(rs) == [i \in 1..Len(rs) |-> "- " \o rs[i]]

\* the branch on the pollutant that holds the two cascades
Steps(pol, p1hr, p24, pAnn) ==
    IF Contains("NO2", pol) THEN NO2Steps(p1hr, pAnn) ELSE PM25Steps(p24, pAnn)

(***************************************************************************)
(* Bounds of the model.  The sliders and the number_input offer more       *)
(* values than can be enumerated; the model moves them to the positions    *)
(* below.                                                                  *)
(***************************************************************************)
\* the number_input takes the tenths 0.1 .. MaxTenths/10 besides the values
\* around the benchmarks
MaxTenths == 1

TypedValues ==
    { FZero, FromRatio(4499, 1000), FromRatio(45, 10), FromRatio(8999, 1000),
      FromInt(9), FromRatio(49999, 1000), FromInt(50), FromInt(100) }
    \cup { FromRatio(k, 10) : k \in 1..MaxTenths }

HoursChoices == { HoursMin, HoursInitial, 4, HoursMax }

InfiltrationChoices == { 0, 7, 12, 19, InfiltrationSteps }

(***************************************************************************)
(* State: the widgets, then what the last run of the script bound and      *)
(* displayed.                                                              *)
(***************************************************************************)
VARIABLES
    profile, pollutant, use_default, typed, hours_out, infiltration, activity,
    tier, default_outdoor, unit, c_outdoor, hours_in,
    vent_m3_per_hr, vent_m3_per_day, c_indoor, c_twa_24h,
    dose_ug_per_day, dose_ppb_hours, dose_display,
    pct_1hr, pct_24, pct_ann, call, recs, written

vars == << profile, pollutant, use_default, typed, hours_out, infiltration, activity,
           tier, default_outdoor, unit, c_outdoor, hours_in,
           vent_m3_per_hr, vent_m3_per_day, c_indoor, c_twa_24h,
           dose_ug_per_day, dose_ppb_hours, dose_display,
           pct_1hr, pct_24, pct_ann, call, recs, written >>

\* one run of the script, top to bottom, on the widgets' new values: each
\* statement reads what the statements before it bound in this run
RunScript ==
    /\ tier' = Tier(profile')
    /\ default_outdoor' = DefaultOutdoor(pollutant', tier')
    /\ unit' = Unit(pollutant')
    /\ c_outdoor' = COutdoor(use_default', default_outdoor', typed')
    /\ hours_in' = HoursIn(hours_out')
    /\ vent_m3_per_hr' = VentM3PerHr(activity')
    /\ vent_m3_per_day' = VentM3PerDay(vent_m3_per_hr')
    /\ c_indoor' = CIndoor(c_outdoor', infiltration')
    /\ c_twa_24h' = CTwa24h(c_outdoor', hours_out', c_indoor', hours_in')
    /\ \E d \in {Dose(pollutant', c_twa_24h', vent_m3_per_day')} :
          /\ dose_ug_per_day' = d.dose_ug_per_day
          /\ dose_ppb_hours' = d.dose_ppb_hours
    /\ dose_display' = DoseDisplay(pollutant', dose_ug_per_day', dose_ppb_hours')
    /\ \E pct \in {Percentages(pollutant', c_outdoor', c_twa_24h')} :
          /\ pct_1hr' = pct.pct_1hr
          /\ pct_24' = pct.pct_24
          /\ pct_ann' = pct.pct_ann
    /\ \E st \in {Steps(pollutant', pct_1hr', pct_24', pct_ann')} :
          /\ call' = st.call
          /\ recs' = st.recs
    /\ written' = Written(recs')

\* the widgets take their new values and the script runs again
Rerun(prof, pol, ud, ty, hOut, inf, act) ==
    /\ profile' = prof
    /\ pollutant' = pol
    /\ use_default' = ud
    /\ typed' = ty
    /\ hours_out' = hOut
    /\ infiltration' = inf
    /\ activity' = act
    /\ RunScript

\* the page as first loaded: every widget at its initial value, and the
\* script has run once on them
Init ==
    /\ profile = ProfileOptions[1]
    /\ pollutant = PollutantOptions[1]
    /\ use_default = TRUE
    /\ typed = Undefined
    /\ hours_out = HoursInitial
    /\ infiltration = InfiltrationInitial
    /\ activity = ActivityOptions[1]
    /\ tier = Tier(profile)
    /\ default_outdoor = DefaultOutdoor(pollutant, tier)
    /\ unit = Unit(pollutant)
    /\ c_outdoor = COutdoor(use_default, default_outdoor, typed)
    /\ hours_in = HoursIn(hours_out)
    /\ vent_m3_per_hr = VentM3PerHr(activity)
    /\ vent_m3_per_day = VentM3PerDay(vent_m3_per_hr)
    /\ c_indoor = CIndoor(c_outdoor, infiltration)
    /\ c_twa_24h = CTwa24h(c_outdoor, hours_out, c_indoor, hours_in)
    /\ \E d \in {Dose(pollutant, c_twa_24h, vent_m3_per_day)} :
          /\ dose_ug_per_day = d.dose_ug_per_day
          /\ dose_ppb_hours = d.dose_ppb_hours
    /\ dose_display = DoseDisplay(pollutant, dose_ug_per_day, dose_ppb_hours)
    /\ \E pct \in {Percentages(pollutant, c_outdoor, c_twa_24h)} :
          /\ pct_1hr = pct.pct_1hr
          /\ pct_24 = pct.pct_24
          /\ pct_ann = pct.pct_ann
    /\ \E st \in {Steps(pollutant, pct_1hr, pct_24, pct_ann)} :
          /\ call = st.call
          /\ recs = st.recs
    /\ written = Written(recs)

\* The checkbox's label holds the default and the unit, so a run that
\* computes another default or unit builds another checkbox, at value=True;
\* the number_input is not built in that run and forgets what was typed.
SelectProfile(p) ==
    /\ p # profile
    /\ Rerun(p, pollutant, TRUE, Undefined, hours_out, infiltration, activity)

SelectPollutant(p) ==
    /\ p # pollutant
    /\ Rerun(profile, p, TRUE, Undefined, hours_out, infiltration, activity)

\* unticking builds the number_input at value=float(default_outdoor)
ToggleUseDefault ==
    IF use_default
    THEN Rerun(profile, pollutant, FALSE, default_outdoor, hours_out,
               infiltration, activity)
    ELSE Rerun(profile, pollutant, TRUE, Undefined, hours_out, infiltration,
               activity)

\* a number typed into the number_input (min_value=0.0)
TypeOutdoor(v) ==
    /\ ~use_default
    /\ v # typed
    /\ FGe(v, FZero)
    /\ Rerun(profile, pollutant, FALSE, v, hours_out, infiltration, activity)

MoveHoursSlider(h) ==
    /\ h # hours_out
    /\ h \in HoursMin..HoursMax
    /\ Rerun(profile, pollutant, use_default, typed, h, infiltration, activity)

MoveInfiltrationSlider(k) ==
    /\ SliderValue(k) # infiltration
    /\ k \in 0..InfiltrationSteps
    /\ Rerun(profile, pollutant, use_default, typed, hours_out, SliderValue(k),
             activity)

SelectActivity(a) ==
    /\ a # activity
    /\ Rerun(profile, pollutant, use_default, typed, hours_out, infiltration, a)

Next ==
    \/ \E i \in DOMAIN ProfileOptions : SelectProfile(ProfileOptions[i])
    \/ \E i \in DOMAIN PollutantOptions : SelectPollutant(PollutantOptions[i])
    \/ ToggleUseDefault
    \/ \E v \in TypedValues : TypeOutdoor(v)
    \/ \E h \in HoursChoices : MoveHoursSlider(h)
    \/ \E k \in InfiltrationChoices : MoveInfiltrationSlider(k)
    \/ \E i \in DOMAIN ActivityOptions : SelectActivity(ActivityOptions[i])

Spec == Init /\ [][Next]_vars

(***************************************************************************)
(* The properties.                                                         *)
(***************************************************************************)
IsNO2 == pollutant = PollutantOptions[1]

IsPM25 == pollutant = PollutantOptions[2]

\* the short-term percentage of the selected pollutant
ShortTermPct == IF IsNO2 THEN pct_1hr ELSE pct_24

\* the concern tier the page announces
ConcernTier ==
    IF call = "warning" THEN "High"
    ELSE IF call = "info" THEN "Moderate"
    ELSE "Low"

\* the tier the two percentages call for
TierOf(p1, p2) ==
    IF FGe(p1, FromInt(100)) \/ FGe(p2, FromInt(100)) THEN "High"
    ELSE IF FGe(p1, FromInt(50)) \/ FGe(p2, FromInt(50)) THEN "Moderate"
    ELSE "Low"

\* C1: for both pollutants the tier is High exactly when the short-term or
\* the long-term percentage is >= 100, Moderate exactly when it is not High
\* and one of them is >= 50, and Low otherwise; both thresholds inclusive.
C1_TierThresholds ==
    /\ call \in {"warning", "info", "success"}
    /\ ConcernTier = "High" <=>
          (FGe(ShortTermPct, FromInt(100)) \/ FGe(pct_ann, FromInt(100)))
    /\ ConcernTier = "Moderate" <=>
          /\ ~(FGe(ShortTermPct, FromInt(100)) \/ FGe(pct_ann, FromInt(100)))
          /\ (FGe(ShortTermPct, FromInt(50)) \/ FGe(pct_ann, FromInt(50)))
    /\ ConcernTier = "Low" <=>
          (FLt(ShortTermPct, FromInt(50)) /\ FLt(pct_ann, FromInt(50)))

\* a percentage of exactly 50, the other one below 50: Moderate
C1_Witness ==
    /\ IsNO2
    /\ pct_1hr = FromInt(50)
    /\ FLt(pct_ann, FromInt(50))
    /\ call = "info"

\* the two percentages of each pollutant, as the run binds them
C3_State ==
    /\ IsNO2 =>
          /\ pct_1hr = FDiv(FMul(FromInt(100), c_outdoor), FromInt(100))
          /\ pct_ann = FDiv(FMul(FromInt(100), c_twa_24h), FromInt(53))
          /\ pct_24 = Undefined
    /\ IsPM25 =>
          /\ pct_24 = FDiv(FMul(FromInt(100), c_twa_24h), FromInt(35))
          /\ pct_ann = FDiv(FMul(FromInt(100), c_twa_24h), FromInt(9))
          /\ pct_1hr = Undefined

\* a re-run that keeps NO2 and its outdoor concentration
C3_Step ==
    (IsNO2 /\ IsNO2' /\ c_outdoor' = c_outdoor) => pct_1hr' = pct_1hr

\* C3: NO2's short-term percentage is 100 * c_outdoor / 100 and its
\* long-term one 100 * c_twa_24h / 53; both PM2.5 percentages use the
\* time-weighted average, over 35 and over 9.  So for NO2 the short-term
\* percentage stays as it is across any re-run that keeps the outdoor
\* concentration (a move of the hours or of the infiltration slider).
C3_BenchmarkAsymmetry == [](C3_State) /\ [][C3_Step]_vars

\* a PM2.5 page whose short-term percentage is not the one the same
\* concentrations give at the slider's initial hours: it follows the hours
C3_Witness ==
    /\ IsPM25
    /\ hours_out # HoursInitial
    /\ pct_24 # FDiv(FMul(FromInt(100),
                          CTwa24h(c_outdoor, HoursInitial, c_indoor,
                                  HoursIn(HoursInitial))),
                     FromInt(35))

\* C4: hours_in = 24 - hours_out lies in 0..24, and
\* c_indoor <= c_twa_24h <= c_outdoor.
C4_TwaBetween ==
    /\ hours_in = 24 - hours_out
    /\ hours_in \in 0..24
    /\ FLe(c_indoor, c_outdoor)
    /\ FLe(c_indoor, c_twa_24h)
    /\ FLe(c_twa_24h, c_outdoor)

\* a re-run with more hours outdoors and the same concentration and
\* infiltration
C5_Step ==
    (/\ hours_out' > hours_out
     /\ c_outdoor' = c_outdoor
     /\ infiltration' = infiltration)
    => /\ FLt(c_indoor, c_outdoor) => FLt(c_twa_24h, c_twa_24h')
       /\ FLt(c_outdoor, c_indoor) => FLt(c_twa_24h', c_twa_24h)
       /\ c_indoor = c_outdoor => c_twa_24h' = c_twa_24h

\* C5: with the outdoor concentration and the infiltration fixed, more
\* hours outdoors strictly raise the average when outdoor > indoor, strictly
\* lower it when indoor > outdoor, and leave it as it is when they are equal.
C5_Monotone == [][C5_Step]_vars

\* C6: at 0 hours outdoors the average is the indoor concentration exactly,
\* at 24 hours it is the outdoor concentration exactly.
C6_Endpoints ==
    /\ c_indoor = FMul(c_outdoor, infiltration)
    /\ hours_out = 0 => c_twa_24h = c_indoor
    /\ hours_out = 24 => c_twa_24h = c_outdoor

\* the ventilation rates of the three activity levels, m3 per hour
RateOf(act) ==
    IF act = "Resting" THEN FromRatio(5, 10)
    ELSE IF act = "Light activity" THEN FromInt(1)
    ELSE FromRatio(16, 10)

\* the dose names after a run
C7_State ==
    /\ IsPM25 =>
          /\ dose_ug_per_day =
                FMul(c_twa_24h, FMul(RateOf(activity), FromInt(24)))
          /\ dose_ppb_hours = Undefined
          /\ dose_display = [value |-> dose_ug_per_day, unit |-> "ug/day"]
    /\ IsNO2 =>
          /\ dose_ppb_hours = FMul(c_twa_24h, FromInt(24))
          /\ dose_ug_per_day = Undefined
          /\ dose_display = [value |-> dose_ppb_hours, unit |-> "ppb.hours/day"]

\* a re-run that keeps NO2 and its time-weighted average
C7_Step ==
    (IsNO2 /\ IsNO2' /\ c_twa_24h' = c_twa_24h) =>
        dose_ppb_hours' = dose_ppb_hours

\* C7: for PM2.5 the dose is c_twa_24h times the day's ventilation (the
\* activity's rate times 24), for NO2 it is c_twa_24h times 24 whatever the
\* activity; a run binds and displays the variant of the selected pollutant
\* and leaves the other unbound; a change of activity alone leaves the NO2
\* dose as it is.
C7_DoseByPollutant == [](C7_State) /\ [][C7_Step]_vars

\* a PM2.5 dose at the highest ventilation rate
C7_Witness ==
    /\ IsPM25
    /\ activity = "Moderate activity"
    /\ dose_ug_per_day # Undefined
    /\ dose_ug_per_day # FMul(c_twa_24h, FromInt(24))
    /\ dose_ppb_hours = Undefined

\* the six advisory lists, by pollutant and concern tier
Advisories ==
    [NO2  |-> [High |-> NO2HighRecs, Moderate |-> NO2ModerateRecs,
               Low |-> NO2LowRecs],
     PM25 |-> [High |-> PM25HighRecs, Moderate |-> PM25ModerateRecs,
               Low |-> PM25LowRecs]]

\* C8: every run reaches the output loop with recs bound to the one list of
\* the selected pollutant and of the tier its percentages call for; the list
\* has 2 to 4 entries and the loop writes them all, in order.
C8_RecommendationsTotal ==
    /\ recs # Undefined
    /\ recs = Advisories[IF IsNO2 THEN "NO2" ELSE "PM25"]
                        [TierOf(ShortTermPct, pct_ann)]
    /\ Len(recs) \in 2..4
    /\ Len(written) = Len(recs)
    /\ \A i \in 1..Len(recs) : written[i] = "- " \o recs[i]

\* the PM2.5 list of the Low tier, written out
C8_Witness ==
    /\ IsPM25
    /\ call = "success"
    /\ recs = Advisories["PM25"]["Low"]
    /\ Len(written) = 2

\* C9: the default is the table's entry for the pollutant and the
\* profile's tier (NO2: 60, 35, 20; PM2.5: 20, 12, 8; High, Medium, Lower),
\* a positive number; each profile has one tier; the concentration used is
\* the default unless a number was typed in.
C9_DefaultLookup ==
    /\ tier = (IF profile = ProfileOptions[1] THEN "High"
               ELSE IF profile = ProfileOptions[2] THEN "Medium"
               ELSE "Lower")
    /\ default_outdoor =
          (IF IsNO2
           THEN (IF tier = "High" THEN FromInt(60)
                 ELSE IF tier = "Medium" THEN FromInt(35) ELSE FromInt(20))
           ELSE (IF tier = "High" THEN FromInt(20)
                 ELSE IF tier = "Medium" THEN FromInt(12) ELSE FromInt(8)))
    /\ FLt(FZero, default_outdoor)
    /\ use_default => c_outdoor = default_outdoor
    /\ ~use_default => c_outdoor = typed

\* an override in force on the Medium profile
C9_Witness ==
    /\ tier = "Medium"
    /\ ~use_default
    /\ c_outdoor = typed
    /\ c_outdoor # default_outdoor

\* C10: for PM2.5 the long-term percentage is never below the short-term
\* one, and the tier is High exactly when c_twa_24h >= 9, Moderate exactly
\* when 4.5 <= c_twa_24h < 9, Low exactly when c_twa_24h < 4.5.
C10_PM25LongTermDecides ==
    IsPM25 =>
        /\ FGe(pct_ann, pct_24)
        /\ ConcernTier = "High" <=> FGe(c_twa_24h, FromInt(9))
        /\ ConcernTier = "Moderate" <=>
              (FGe(c_twa_24h, FromRatio(45, 10)) /\ FLt(c_twa_24h, FromInt(9)))
        /\ ConcernTier = "Low" <=> FLt(c_twa_24h, FromRatio(45, 10))

\* an average of exactly 9: High on the long-term percentage alone
C10_Witness ==
    /\ IsPM25
    /\ c_twa_24h = FromInt(9)
    /\ FLt(pct_24, FromInt(50))
    /\ call = "warning"

====
